---------------------------- MODULE Spec2Model ----------------------------
(***************************************************************************)
(* A model of the compass geometry core: the Coordinate value type         *)
(* (src/src/coordinate.rs), the CoordinateSequence container               *)
(* (src/src/coordinate/coordinate_sequences.rs) and Geometry::is_simple    *)
(* with its helper is_simple_coordinates (src/src/geometry.rs), together   *)
(* with the trait implementation Point::is_simple                          *)
(* (src/src/geometry/point.rs).                                            *)
(*                                                                         *)
(* Four specifications share the module:                                   *)
(*   Spec     one call of is_simple on a geometry, the scan of             *)
(*            is_simple_coordinates taken one iterator step at a time;     *)
(*   SpecSeq  a CoordinateSequence built by new and the read-only calls    *)
(*            made on it;                                                  *)
(*   SpecCow  the CoordinateSequence values alive and the calls of         *)
(*            set_coordinate and add_coordinate that derive new ones;      *)
(*   SpecCoord  two Coordinate values and the calls made on them.          *)
(***************************************************************************)
EXTENDS Integers, Sequences, FiniteSets, TLC

VARIABLES
    geom,           \* the receiver of is_simple (a Geometry, or a Point struct)
    pc,             \* position of the is_simple call
    pos,            \* number of items the iterator `coords` has yielded
    initial,        \* Option<&Coordinate>: the local `initial`
    set,            \* the local HashSet<&Coordinate>
    initial_state,  \* the local `initial_state`
    state,          \* the local `state`
    result,         \* Option<bool>: the value is_simple returned
    seqs,           \* the CoordinateSequence values alive, in creation order
    last,           \* the last call made on a CoordinateSequence or a
                    \* Coordinate, and its outcome
    coords          \* the Coordinate values the calls on coordinates are made on

vars == <<geom, pc, pos, initial, set, initial_state, state, result, seqs, last, coords>>

simpleVars == <<geom, pc, pos, initial, set, initial_state, state, result>>
seqVars == <<seqs, last>>
coordVars == <<coords>>

-----------------------------------------------------------------------------
(* Bounds of the model.                                                    *)

\* longest coordinate list handed to is_simple
MaxLen == 5
\* longest CoordinateSequence the queries are applied to
MaxSeqLen == 3
\* largest ordinate index passed to get_ordinate and set_ordinate
MaxOrdinate == 3
\* longest CoordinateSequence the mutators start from or grow to
MaxCowLen == 2
\* number of CoordinateSequence values a run of the mutators creates
MaxStore == 3

-----------------------------------------------------------------------------
(* Rust's Option.                                                          *)

None == <<>>
Some(v) == <<v>>

-----------------------------------------------------------------------------
(* f64 ordinates.  A value is either a number or NaN; `==` on f64 is the   *)
(* IEEE comparison, under which NaN equals nothing, itself included.       *)

F(v) == [nan |-> FALSE, v |-> v]
NaN == [nan |-> TRUE, v |-> 0]

FEq(a, b) == ~a.nan /\ ~b.nan /\ a.v = b.v

-----------------------------------------------------------------------------
(* Coordinate (src/src/coordinate.rs).                                     *)

TwoDim(x, y) == [dim |-> "TwoDim", x |-> x, y |-> y]
ThreeDim(x, y, z) == [dim |-> "ThreeDim", x |-> x, y |-> y, z |-> z]

x(self) == self.x

y(self) == self.y

\* a faulty z that reports a missing z as NaN
z_nan_when_planar(self) == IF self.dim = "ThreeDim" THEN self.z ELSE NaN

z(self) == IF self.dim = "ThreeDim" THEN self.z ELSE F(0)

equals_2d(self, other) == FEq(x(self), x(other)) /\ FEq(y(self), y(other))

equals_3d(self, other) == equals_2d(self, other) /\ FEq(z(self), z(other))

\* a faulty PartialEq that compares the planar projection only
eq_planar(self, other) == equals_2d(self, other)

\* impl PartialEq for Coordinate: the `==` of coordinates
eq(self, other) == equals_3d(self, other)

\* impl PartialEq for Coordinate: the `!=` of coordinates
ne(self, other) == ~equals_3d(self, other)

-----------------------------------------------------------------------------
(* std::collections::HashSet<&Coordinate> as the code uses it: a key is    *)
(* present when the set holds an element equal to it under Coordinate's    *)
(* `==`.  insert reports whether the key was newly inserted and leaves the *)
(* set alone when it was not.  The sources hold no Hash implementation for *)
(* Coordinate; it is taken to agree with `==` on the coordinates of the    *)
(* runs, as HashSet requires of its keys.                                  *)

\* a faulty set that tells keys apart by variant and field, as a derived
\* PartialEq would
HashSetInsertByVariant(s, value) ==
    IF value \in s
    THEN [inserted |-> FALSE, set |-> s]
    ELSE [inserted |-> TRUE, set |-> s \cup {value}]

HashSetInsert(s, value) ==
    IF \E e \in s : eq(e, value)
    THEN [inserted |-> FALSE, set |-> s]
    ELSE [inserted |-> TRUE, set |-> s \cup {value}]

-----------------------------------------------------------------------------
(* Inputs.                                                                 *)

\* the coordinates the runs draw from: a 2D point and its 3D twin with
\* z = 0, a point above it, two further planar points and a point with a
\* NaN ordinate
CoordPool ==
    { TwoDim(F(0), F(0)), ThreeDim(F(0), F(0), F(0)), ThreeDim(F(0), F(0), F(1)),
      TwoDim(F(1), F(0)), TwoDim(F(0), F(1)), TwoDim(NaN, F(0)) }

SeqsUpTo(S, n) == UNION { [1..k -> S] : k \in 0..n }

\* the receivers of Geometry::is_simple, one family per variant of the enum
Points == [kind : {"Point"}, coordinates : CoordPool]

LineStrings == [kind : {"LineString"}, coordinates : SeqsUpTo(CoordPool, MaxLen)]

FlatOthers == [kind : {"LinearRing", "MultiPoint"}, coordinates : SeqsUpTo(CoordPool, 3)]

NestedOthers ==
    [kind : {"Polygon", "MultiLineString"}, coordinates : SeqsUpTo(SeqsUpTo(CoordPool, 1), 2)]

MultiPolygons ==
    [kind : {"MultiPolygon"}, coordinates : SeqsUpTo(SeqsUpTo(SeqsUpTo(CoordPool, 1), 1), 1)]

GeometryCollections ==
    [kind : {"GeometryCollection"}, geometries : SeqsUpTo(Points, 1)]

\* the receivers of the trait method Geometry::is_simple implemented for
\* the struct Point
PointStructs == [kind : {"point::Point"}, coordinate : CoordPool]

-----------------------------------------------------------------------------
(* Geometry::is_simple (src/src/geometry.rs).                              *)

\* values of the variables of a specification that does not use them
SimpleIdle ==
    /\ geom = [kind |-> "none"]
    /\ pc = "idle"
    /\ pos = 0
    /\ initial = None
    /\ set = {}
    /\ initial_state = TRUE
    /\ state = TRUE
    /\ result = None

SeqIdle ==
    /\ seqs = <<>>
    /\ last = [op |-> "none"]

CoordIdle == coords = <<>>

\* a geometry has been built and is_simple is about to be called on it
Init ==
    /\ \/ geom \in Points
       \/ geom \in LineStrings
       \/ geom \in FlatOthers
       \/ geom \in NestedOthers
       \/ geom \in MultiPolygons
       \/ geom \in GeometryCollections
       \/ geom \in PointStructs
    /\ pc = "call"
    /\ pos = 0
    /\ initial = None
    /\ set = {}
    /\ initial_state = TRUE
    /\ state = TRUE
    /\ result = None
    /\ SeqIdle
    /\ CoordIdle

Return(b) ==
    /\ result' = Some(b)
    /\ pc' = "returned"

\* a faulty match that lets points fall through to the `_ => false` arm
is_simple_Point_fallthrough ==
    /\ pc = "call"
    /\ geom.kind = "Point"
    /\ Return(FALSE)
    /\ UNCHANGED <<geom, pos, initial, set, initial_state, state, seqVars, coordVars>>

\* match self { Geometry::Point { .. } => true, ...
is_simple_Point ==
    /\ pc = "call"
    /\ geom.kind = "Point"
    /\ Return(TRUE)
    /\ UNCHANGED <<geom, pos, initial, set, initial_state, state, seqVars, coordVars>>

\* a faulty prologue that takes the first coordinate without unwrap and
\* lets the loop run over an empty vector
is_simple_LineString_unchecked ==
    /\ pc = "call"
    /\ geom.kind = "LineString"
    /\ pc' = "loop"
    /\ pos' = IF Len(geom.coordinates) = 0 THEN 0 ELSE 1
    /\ initial' = IF Len(geom.coordinates) = 0 THEN None
                  ELSE Some(geom.coordinates[1])
    /\ set' = {}
    /\ initial_state' = TRUE
    /\ state' = TRUE
    /\ UNCHANGED <<geom, result, seqVars, coordVars>>

\* a faulty prologue that puts the first coordinate into the set
is_simple_LineString_seeded ==
    /\ pc = "call"
    /\ geom.kind = "LineString"
    /\ IF Len(geom.coordinates) = 0
       THEN /\ pc' = "panicked"
            /\ UNCHANGED <<pos, initial, set, initial_state, state>>
       ELSE /\ pc' = "loop"
            /\ pos' = 1
            /\ initial' = Some(geom.coordinates[1])
            /\ set' = {geom.coordinates[1]}
            /\ initial_state' = TRUE
            /\ state' = TRUE
    /\ UNCHANGED <<geom, result, seqVars, coordVars>>

\* Geometry::LineString { coordinates } => is_simple_coordinates(&coordinates):
\* the helper's prologue, coords.next().unwrap() and the four locals
is_simple_LineString ==
    /\ pc = "call"
    /\ geom.kind = "LineString"
    /\ IF Len(geom.coordinates) = 0
       THEN /\ pc' = "panicked"
            /\ UNCHANGED <<pos, initial, set, initial_state, state>>
       ELSE /\ pc' = "loop"
            /\ pos' = 1
            /\ initial' = Some(geom.coordinates[1])
            /\ set' = {}
            /\ initial_state' = TRUE
            /\ state' = TRUE
    /\ UNCHANGED <<geom, result, seqVars, coordVars>>

\* a faulty match that counts every LinearRing as simple
is_simple_other_ring_simple ==
    /\ pc = "call"
    /\ geom.kind \in {"LinearRing", "Polygon", "MultiPoint", "MultiLineString",
                      "MultiPolygon", "GeometryCollection"}
    /\ Return(geom.kind = "LinearRing")
    /\ UNCHANGED <<geom, pos, initial, set, initial_state, state, seqVars, coordVars>>

\* _ => false
is_simple_other ==
    /\ pc = "call"
    /\ geom.kind \in {"LinearRing", "Polygon", "MultiPoint", "MultiLineString",
                      "MultiPolygon", "GeometryCollection"}
    /\ Return(FALSE)
    /\ UNCHANGED <<geom, pos, initial, set, initial_state, state, seqVars, coordVars>>

\* a faulty guard that breaks on the first coordinate the loop takes
BreakAlways(st, ist) == TRUE

\* a faulty guard that breaks only on a marked violation
BreakOnViolationOnly(st, ist) == ~st

\* if !state || !initial_state
BreakEarly(st, ist) == ~st \/ ~ist

\* a faulty arm that marks the return to the start as a violation
InitialArmViolation(st, ist) == [state |-> FALSE, initial_state |-> ist]

\* else if initial == coordinate { initial_state = false; }
InitialArm(st, ist) == [state |-> st, initial_state |-> FALSE]

\* a faulty end of the scan that reports every line as simple
NoneArmTrue(st) == TRUE

\* None => { if !state { break false; } else { break true; } }
NoneArm(st) == IF ~st THEN FALSE ELSE TRUE

\* a faulty step that handles the coordinate after the current position
\* without advancing the iterator past it
loop_Some_stuck ==
    /\ pc = "loop"
    /\ pos < Len(geom.coordinates)
    /\ LET coordinate == geom.coordinates[pos + 1]
           ins == HashSetInsert(set, coordinate)
           arm == InitialArm(state, initial_state)
       IN  IF BreakEarly(state, initial_state)
           THEN /\ Return(FALSE)
                /\ pos' = pos + 1
                /\ UNCHANGED <<set, initial_state, state>>
           ELSE IF eq(initial[1], coordinate)
           THEN /\ initial_state' = arm.initial_state
                /\ state' = arm.state
                /\ UNCHANGED <<set, pc, result, pos>>
           ELSE /\ set' = ins.set
                /\ state' = IF ~ins.inserted THEN FALSE ELSE state
                /\ UNCHANGED <<initial_state, pc, result, pos>>
    /\ UNCHANGED <<geom, initial, seqVars, coordVars>>

\* Some(coordinate) => { ... }: one iterator step that yields a coordinate
loop_Some ==
    /\ pc = "loop"
    /\ pos < Len(geom.coordinates)
    /\ pos' = pos + 1
    /\ LET coordinate == geom.coordinates[pos + 1]
           ins == HashSetInsert(set, coordinate)
           arm == InitialArm(state, initial_state)
       IN  IF BreakEarly(state, initial_state)
           THEN /\ Return(FALSE)
                /\ UNCHANGED <<set, initial_state, state>>
           ELSE IF eq(initial[1], coordinate)
           THEN /\ initial_state' = arm.initial_state
                /\ state' = arm.state
                /\ UNCHANGED <<set, pc, result>>
           ELSE /\ set' = ins.set
                /\ state' = IF ~ins.inserted THEN FALSE ELSE state
                /\ UNCHANGED <<initial_state, pc, result>>
    /\ UNCHANGED <<geom, initial, seqVars, coordVars>>

\* None => { ... }: the iterator is exhausted
loop_None ==
    /\ pc = "loop"
    /\ pos = Len(geom.coordinates)
    /\ Return(NoneArm(state))
    /\ UNCHANGED <<geom, pos, initial, set, initial_state, state, seqVars, coordVars>>

\* impl Geometry for Point: fn is_simple(&self) -> bool { true }
Point_is_simple ==
    /\ pc = "call"
    /\ geom.kind = "point::Point"
    /\ Return(TRUE)
    /\ UNCHANGED <<geom, pos, initial, set, initial_state, state, seqVars, coordVars>>

Next ==
    \/ is_simple_Point
    \/ is_simple_LineString
    \/ is_simple_other
    \/ loop_Some
    \/ loop_None
    \/ Point_is_simple

Spec == Init /\ [][Next]_vars

\* is_simple is a synchronous call with no suspension point: a started call
\* takes its next step until it returns or panics
SpecLive == Init /\ [][Next]_vars /\ WF_vars(Next)

-----------------------------------------------------------------------------
(* Properties of is_simple.  Positions are counted from 0 in the           *)
(* statements and from 1 in the formulas.                                  *)

\* is_simple has returned a verdict for a LineString
LineStringReturned == pc = "returned" /\ geom.kind = "LineString"

\* the pairs of positions i < j of cs that hold structurally equal coordinates
EqualPairs(cs) ==
    { p \in (1..Len(cs)) \X (1..Len(cs)) : p[1] < p[2] /\ equals_3d(cs[p[1]], cs[p[2]]) }

\* C1: for a LineString of n >= 1 coordinates is_simple returns true exactly
\* when no two positions hold structurally equal coordinates other than,
\* at most, the first and the last position.
C1_SimpleIffOnlyEndsCoincide ==
    LineStringReturned =>
        (result = Some(TRUE)
            <=> EqualPairs(geom.coordinates) \subseteq {<<1, Len(geom.coordinates)>>})

\* a ring of four coordinates closed by the 3D twin of its 2D start was
\* judged simple
C1_Witness ==
    /\ LineStringReturned
    /\ Len(geom.coordinates) = 4
    /\ EqualPairs(geom.coordinates) = {<<1, 4>>}
    /\ geom.coordinates[1].dim # geom.coordinates[4].dim
    /\ result = Some(TRUE)

\* cs is closed and its interior coordinates are pairwise distinct and
\* differ from the first
IsRing(cs) ==
    /\ Len(cs) >= 3
    /\ equals_3d(cs[Len(cs)], cs[1])
    /\ \A i, j \in 2..(Len(cs) - 1) : i < j => ~equals_3d(cs[i], cs[j])
    /\ \A i \in 2..(Len(cs) - 1) : ~equals_3d(cs[i], cs[1])

\* C2: a LineString of length >= 3 whose last coordinate equals its first
\* and whose interior coordinates are pairwise distinct and differ from the
\* first is simple.
C2_ClosedRingIsSimple ==
    (LineStringReturned /\ IsRing(geom.coordinates)) => result = Some(TRUE)

C2_Witness ==
    /\ LineStringReturned
    /\ IsRing(geom.coordinates)
    /\ Len(geom.coordinates) = 3
    /\ result = Some(TRUE)

PairwiseDistinct(cs) ==
    \A i, j \in 1..Len(cs) : i < j => ~equals_3d(cs[i], cs[j])

\* C3: a LineString whose coordinates are pairwise distinct, a single
\* coordinate included, is simple.
C3_DistinctIsSimple ==
    (LineStringReturned /\ PairwiseDistinct(geom.coordinates)) => result = Some(TRUE)

\* three pairwise distinct coordinates, two of which share x and y, were
\* judged simple
C3_Witness ==
    /\ LineStringReturned
    /\ PairwiseDistinct(geom.coordinates)
    /\ Len(geom.coordinates) = 3
    /\ \E i, j \in 1..3 : i < j /\ equals_2d(geom.coordinates[i], geom.coordinates[j])
    /\ result = Some(TRUE)

\* some position j >= 2 repeats a position i with 1 <= i < j
RevisitsInterior(cs) ==
    \E j \in 3..Len(cs) : \E i \in 2..(j - 1) : equals_3d(cs[i], cs[j])

\* C4: a LineString in which a coordinate at position j >= 2 equals a
\* coordinate at an earlier position i >= 1 is not simple.
C4_RevisitedPointNotSimple ==
    (LineStringReturned /\ RevisitsInterior(geom.coordinates)) => result = Some(FALSE)

\* the tail duplicate [A, B, B]
C4_Witness ==
    /\ LineStringReturned
    /\ Len(geom.coordinates) = 3
    /\ equals_3d(geom.coordinates[2], geom.coordinates[3])
    /\ ~equals_3d(geom.coordinates[1], geom.coordinates[2])
    /\ result = Some(FALSE)

\* the first coordinate recurs at a position i with 1 <= i < n - 1
RevisitsStartEarly(cs) ==
    /\ Len(cs) >= 3
    /\ \E i \in 2..(Len(cs) - 1) : equals_3d(cs[i], cs[1])

\* C5: a LineString of length >= 3 in which the first coordinate recurs
\* before the last position is not simple.
C5_StartRevisitedEarlyNotSimple ==
    (LineStringReturned /\ RevisitsStartEarly(geom.coordinates)) => result = Some(FALSE)

\* the head duplicate [B, B, A]
C5_Witness ==
    /\ LineStringReturned
    /\ Len(geom.coordinates) = 3
    /\ equals_3d(geom.coordinates[2], geom.coordinates[1])
    /\ EqualPairs(geom.coordinates) = {<<1, 2>>}
    /\ result = Some(FALSE)

\* C6: a LineString of length >= 2 whose second coordinate equals its
\* first, the two-coordinate [A, A] included, is not simple.
C6_RepeatedStartNotSimple ==
    (/\ LineStringReturned
     /\ Len(geom.coordinates) >= 2
     /\ equals_3d(geom.coordinates[2], geom.coordinates[1])) => result = Some(FALSE)

\* C7: is_simple is true of every point, the Point variant of the enum and
\* the Point struct alike.
C7_PointsAreSimple ==
    (pc = "returned" /\ geom.kind \in {"Point", "point::Point"}) => result = Some(TRUE)

\* a Point of the enum whose coordinate has a NaN ordinate was judged simple
C7_Witness ==
    /\ pc = "returned"
    /\ geom.kind = "Point"
    /\ x(geom.coordinates).nan
    /\ result = Some(TRUE)

-----------------------------------------------------------------------------
(* CoordinateSequence (src/src/coordinate/coordinate_sequences.rs).  A     *)
(* sequence is the list held by its field `coordinates`; indices are       *)
(* counted from 0 in the calls and from 1 in the lists.                    *)

len(coordinates) == Len(coordinates)

is_empty(coordinates) == Len(coordinates) = 0

\* a faulty get that wraps an index past the end around to the front
get_coordinate_wrapping(coordinates, index) ==
    IF Len(coordinates) = 0
    THEN None
    ELSE Some(coordinates[(index % Len(coordinates)) + 1])

\* self.coordinates.get(index)
get_coordinate(coordinates, index) ==
    IF index < Len(coordinates) THEN Some(coordinates[index + 1]) ELSE None

\* the loop of has_duplicates from its k-th coordinate on, `seen` being the
\* local `set`
RECURSIVE has_duplicates_from(_, _, _)
has_duplicates_from(coordinates, k, seen) ==
    IF k > Len(coordinates)
    THEN FALSE
    ELSE LET ins == HashSetInsert(seen, coordinates[k])
         IN  IF ~ins.inserted
             THEN TRUE
             ELSE has_duplicates_from(coordinates, k + 1, ins.set)

has_duplicates(coordinates) == has_duplicates_from(coordinates, 1, {})

\* a faulty guard that lets a single coordinate be compared with itself
is_closed_off_by_one(coordinates) ==
    IF Len(coordinates) < 1
    THEN FALSE
    ELSE eq(coordinates[1], coordinates[Len(coordinates)])

is_closed(coordinates) ==
    IF Len(coordinates) < 2
    THEN FALSE
    ELSE eq(coordinates[1], coordinates[Len(coordinates)])

\* CoordinateSequence::new(coordinates) has been called
InitSeq ==
    /\ \E coordinates \in SeqsUpTo(CoordPool, MaxSeqLen) : seqs = <<coordinates>>
    /\ last = [op |-> "new"]
    /\ SimpleIdle
    /\ CoordIdle

Call_get_coordinates ==
    /\ last' = [op |-> "get_coordinates", ret |-> seqs[1]]
    /\ UNCHANGED <<seqs, simpleVars, coordVars>>

Call_get_coordinate(index) ==
    /\ last' = [op |-> "get_coordinate", index |-> index,
                ret |-> get_coordinate(seqs[1], index)]
    /\ UNCHANGED <<seqs, simpleVars, coordVars>>

Call_len ==
    /\ last' = [op |-> "len", ret |-> len(seqs[1])]
    /\ UNCHANGED <<seqs, simpleVars, coordVars>>

Call_is_empty ==
    /\ last' = [op |-> "is_empty", ret |-> is_empty(seqs[1])]
    /\ UNCHANGED <<seqs, simpleVars, coordVars>>

Call_has_duplicates ==
    /\ last' = [op |-> "has_duplicates", ret |-> has_duplicates(seqs[1])]
    /\ UNCHANGED <<seqs, simpleVars, coordVars>>

Call_is_closed ==
    /\ last' = [op |-> "is_closed", ret |-> is_closed(seqs[1])]
    /\ UNCHANGED <<seqs, simpleVars, coordVars>>

NextSeq ==
    \/ Call_get_coordinates
    \/ \E index \in 0..(MaxSeqLen + 1) : Call_get_coordinate(index)
    \/ Call_len
    \/ Call_is_empty
    \/ Call_has_duplicates
    \/ Call_is_closed

SpecSeq == InitSeq /\ [][NextSeq]_vars

-----------------------------------------------------------------------------
(* Properties of the read-only calls.                                      *)

\* C8: is_closed is false for every sequence of length 0 or 1, and for a
\* sequence of length >= 2 it is true exactly when the first and the last
\* coordinate are structurally equal.
C8_IsClosedIffEndsEqual ==
    last.op = "is_closed" =>
        IF Len(seqs[1]) < 2
        THEN last.ret = FALSE
        ELSE last.ret <=> equals_3d(seqs[1][1], seqs[1][Len(seqs[1])])

\* is_closed answered true for three coordinates that end on the other
\* variant of the coordinate they start from
C8_Witness ==
    /\ last.op = "is_closed"
    /\ Len(seqs[1]) = 3
    /\ seqs[1][1].dim # seqs[1][3].dim
    /\ last.ret = TRUE

\* C9: has_duplicates is true exactly when two different positions hold
\* structurally equal coordinates; it is false for the empty sequence and
\* for pairwise distinct coordinates.
C9_HasDuplicatesIffEqualPair ==
    last.op = "has_duplicates" =>
        /\ last.ret <=> (\E i, j \in 1..Len(seqs[1]) :
                            i # j /\ equals_3d(seqs[1][i], seqs[1][j]))
        /\ Len(seqs[1]) = 0 => last.ret = FALSE
        /\ PairwiseDistinct(seqs[1]) => last.ret = FALSE

\* has_duplicates answered true where the only collision is between a 2D
\* coordinate and its 3D twin with z = 0, two positions apart
C9_Witness ==
    /\ last.op = "has_duplicates"
    /\ Len(seqs[1]) = 3
    /\ EqualPairs(seqs[1]) = {<<1, 3>>}
    /\ seqs[1][1].dim # seqs[1][3].dim
    /\ last.ret = TRUE

-----------------------------------------------------------------------------
(* The mutators of CoordinateSequence.  Each call clones the receiver,     *)
(* changes the clone and returns it; the value returned is a new entry of  *)
(* seqs.  A panic ends the run.                                            *)

\* the coordinates the mutators draw from
CowPool == { TwoDim(F(0), F(0)), ThreeDim(F(0), F(0), F(0)), TwoDim(F(1), F(0)) }

\* new_sequence.coordinates[index] = coordinate, for an index in range
set_coordinate(coordinates, index, coordinate) ==
    [coordinates EXCEPT ![index + 1] = coordinate]

\* new_sequence.coordinates.push(coordinate)
add_coordinate(coordinates, coordinate) == Append(coordinates, coordinate)

InitCow ==
    /\ \E coordinates \in SeqsUpTo(CowPool, MaxCowLen) : seqs = <<coordinates>>
    /\ last = [op |-> "new", panicked |-> FALSE]
    /\ SimpleIdle
    /\ CoordIdle

\* a faulty set_coordinate that writes through to the receiver before
\* copying it
Call_set_coordinate_in_place(r, index, coordinate) ==
    /\ ~last.panicked
    /\ Len(seqs) < MaxStore
    /\ IF index < Len(seqs[r])
       THEN /\ seqs' = Append([seqs EXCEPT ![r] = set_coordinate(seqs[r], index, coordinate)],
                              set_coordinate(seqs[r], index, coordinate))
            /\ last' = [op |-> "set_coordinate", recv |-> r, index |-> index,
                        coordinate |-> coordinate, ret |-> Len(seqs) + 1,
                        panicked |-> FALSE]
       ELSE /\ seqs' = seqs
            /\ last' = [op |-> "set_coordinate", recv |-> r, index |-> index,
                        coordinate |-> coordinate, ret |-> 0, panicked |-> TRUE]
    /\ UNCHANGED <<simpleVars, coordVars>>

\* seqs[r].set_coordinate(index, coordinate)
Call_set_coordinate(r, index, coordinate) ==
    /\ ~last.panicked
    /\ Len(seqs) < MaxStore
    /\ LET new_sequence == seqs[r]
       IN  IF index < Len(new_sequence)
           THEN /\ seqs' = Append(seqs, set_coordinate(new_sequence, index, coordinate))
                /\ last' = [op |-> "set_coordinate", recv |-> r, index |-> index,
                            coordinate |-> coordinate, ret |-> Len(seqs) + 1,
                            panicked |-> FALSE]
           ELSE /\ seqs' = seqs
                /\ last' = [op |-> "set_coordinate", recv |-> r, index |-> index,
                            coordinate |-> coordinate, ret |-> 0, panicked |-> TRUE]
    /\ UNCHANGED <<simpleVars, coordVars>>

\* seqs[r].add_coordinate(coordinate)
Call_add_coordinate(r, coordinate) ==
    /\ ~last.panicked
    /\ Len(seqs) < MaxStore
    /\ Len(seqs[r]) < MaxCowLen
    /\ LET new_sequence == seqs[r]
       IN  /\ seqs' = Append(seqs, add_coordinate(new_sequence, coordinate))
           /\ last' = [op |-> "add_coordinate", recv |-> r, index |-> 0,
                       coordinate |-> coordinate, ret |-> Len(seqs) + 1,
                       panicked |-> FALSE]
    /\ UNCHANGED <<simpleVars, coordVars>>

\* seqs[r].get_coordinate(index)
Call_get_coordinate_of(r, index) ==
    /\ ~last.panicked
    /\ last' = [op |-> "get_coordinate", recv |-> r, index |-> index,
                ret |-> get_coordinate(seqs[r], index), panicked |-> FALSE]
    /\ UNCHANGED <<seqs, simpleVars, coordVars>>

NextCow ==
    \/ \E r \in DOMAIN seqs, index \in 0..MaxCowLen, coordinate \in CowPool :
           Call_set_coordinate(r, index, coordinate)
    \/ \E r \in DOMAIN seqs, coordinate \in CowPool :
           Call_add_coordinate(r, coordinate)
    \/ \E r \in DOMAIN seqs, index \in 0..MaxCowLen :
           Call_get_coordinate_of(r, index)

SpecCow == InitCow /\ [][NextCow]_vars

-----------------------------------------------------------------------------
(* Properties of the mutators.                                             *)

\* every sequence alive before a step is the same list after it
SequencesKept == \A i \in DOMAIN seqs : i \in DOMAIN seqs' /\ seqs'[i] = seqs[i]

\* a set_coordinate that returned gave a list of the receiver's length that
\* holds the coordinate at the index and the receiver's coordinates elsewhere
SetReturnsCopyChangedAtIndex ==
    (last'.op = "set_coordinate" /\ ~last'.panicked) =>
        LET recv == seqs[last'.recv]
            out == seqs'[last'.ret]
        IN  /\ last'.index < Len(recv)
            /\ last'.ret \notin DOMAIN seqs
            /\ Len(out) = Len(recv)
            /\ out[last'.index + 1] = last'.coordinate
            /\ \A k \in 1..Len(recv) : k # last'.index + 1 => out[k] = recv[k]

\* an add_coordinate gave a list one longer, the receiver followed by the
\* coordinate
AddReturnsCopyExtended ==
    last'.op = "add_coordinate" =>
        LET recv == seqs[last'.recv]
            out == seqs'[last'.ret]
        IN  /\ last'.ret \notin DOMAIN seqs
            /\ Len(out) = Len(recv) + 1
            /\ SubSeq(out, 1, Len(recv)) = recv
            /\ out[Len(out)] = last'.coordinate

\* C10: the mutators are copy-on-write.  No call of set_coordinate or
\* add_coordinate, on a sequence or on one derived from it, changes the
\* length, the coordinates or their order in any sequence that exists;
\* set_coordinate(i, c) with i < len returns a sequence of the same length
\* that differs from the receiver only at index i, and add_coordinate(c)
\* returns a sequence one longer, the receiver followed by c.
C10_MutatorsCopyOnWrite ==
    [][SequencesKept /\ SetReturnsCopyChangedAtIndex /\ AddReturnsCopyExtended]_vars

\* a sequence derived from the first one by a set_coordinate that changed
\* it has in turn been extended by add_coordinate, and the first one still
\* differs from it
C10_Witness ==
    /\ Len(seqs) = 3
    /\ last.op = "add_coordinate"
    /\ last.recv = 2
    /\ Len(seqs[2]) = Len(seqs[1])
    /\ seqs[2] # seqs[1]
    /\ seqs[3] = Append(seqs[2], last.coordinate)

-----------------------------------------------------------------------------
(* Indexed access.                                                         *)

\* a get_coordinate returned, without a panic, the coordinate at the index
\* when the index is in range and None when it is not
GetIsChecked ==
    last'.op = "get_coordinate" =>
        LET recv == seqs[last'.recv]
        IN  /\ ~last'.panicked
            /\ seqs' = seqs
            /\ last'.index >= Len(recv) => last'.ret = None
            /\ last'.index < Len(recv) => last'.ret = Some(recv[last'.index + 1])

\* a set_coordinate with an index out of range panicked and gave no sequence
SetOutOfRangePanics ==
    (last'.op = "set_coordinate" /\ last'.index >= Len(seqs[last'.recv])) =>
        /\ last'.panicked
        /\ last'.ret \notin DOMAIN seqs'
        /\ seqs' = seqs

\* C11: indexed access is bounds-checked.  For an index i >= len,
\* get_coordinate(i) returns None without failing and set_coordinate(i, c)
\* panics and yields no sequence; for i < len get_coordinate(i) returns the
\* coordinate at position i.
C11_IndexedAccessChecked ==
    [][GetIsChecked /\ SetOutOfRangePanics]_vars

\* a set_coordinate at the index just past the end of a derived sequence
\* panicked
C11_Witness ==
    /\ last.op = "set_coordinate"
    /\ last.panicked
    /\ Len(seqs) >= 2
    /\ last.recv = 2
    /\ last.index = Len(seqs[2])

-----------------------------------------------------------------------------
(* The accessors and with-update operations of Coordinate                  *)
(* (src/src/coordinate.rs).  A call either returns a value or panics.      *)

Ok(v) == [panicked |-> FALSE, ret |-> v]
Panic == [panicked |-> TRUE]

get_ordinate(self, ordinate) ==
    CASE ordinate = 0 -> Ok(x(self))
      [] ordinate = 1 -> Ok(y(self))
      [] ordinate = 2 -> Ok(z(self))
      [] OTHER -> Panic

set_x(self, new_x) ==
    IF self.dim = "TwoDim"
    THEN TwoDim(new_x, self.y)
    ELSE ThreeDim(new_x, self.y, self.z)

set_y(self, new_y) ==
    IF self.dim = "TwoDim"
    THEN TwoDim(self.x, new_y)
    ELSE ThreeDim(self.x, new_y, self.z)

\* a faulty set_z that leaves a planar coordinate planar
set_z_keeps_planar(self, new_z) ==
    IF self.dim = "TwoDim"
    THEN TwoDim(self.x, self.y)
    ELSE ThreeDim(self.x, self.y, new_z)

set_z(self, new_z) ==
    IF self.dim = "TwoDim"
    THEN ThreeDim(self.x, self.y, new_z)
    ELSE ThreeDim(self.x, self.y, new_z)

set_ordinate(self, ordinate, new_value) ==
    CASE ordinate = 0 -> Ok(set_x(self, new_value))
      [] ordinate = 1 -> Ok(set_y(self, new_value))
      [] ordinate = 2 -> Ok(set_z(self, new_value))
      [] OTHER -> Panic

\* f64::is_finite, on the values of the model
is_finite(f) == ~f.nan

is_valid(self) ==
    IF self.dim = "TwoDim"
    THEN is_finite(self.x) /\ is_finite(self.y)
    ELSE is_finite(self.x) /\ is_finite(self.y) /\ is_finite(self.z)

\* the ordinates the coordinates of the runs are built from, and the values
\* written into them
Ordinates == {F(0), F(1), NaN}
NewValues == {F(0), F(1), F(2), NaN}

AllCoordinates ==
    { TwoDim(a, b) : a \in Ordinates, b \in Ordinates }
        \cup { ThreeDim(a, b, c) : a \in Ordinates, b \in Ordinates, c \in Ordinates }

\* two coordinates have been built
InitCoord ==
    /\ \E a \in AllCoordinates, b \in AllCoordinates : coords = <<a, b>>
    /\ last = [op |-> "new", panicked |-> FALSE]
    /\ seqs = <<>>
    /\ SimpleIdle

\* the outcome of a call that may panic, as a record of the call
Outcome(call, r) ==
    IF r.panicked
    THEN call @@ [panicked |-> TRUE]
    ELSE call @@ [panicked |-> FALSE, ret |-> r.ret]

\* coords[1].z()
Call_z ==
    /\ ~last.panicked
    /\ last' = Outcome([op |-> "z"], Ok(z(coords[1])))
    /\ UNCHANGED <<seqs, simpleVars, coordVars>>

\* coords[1].get_ordinate(ordinate)
Call_get_ordinate(ordinate) ==
    /\ ~last.panicked
    /\ last' = Outcome([op |-> "get_ordinate", ordinate |-> ordinate],
                       get_ordinate(coords[1], ordinate))
    /\ UNCHANGED <<seqs, simpleVars, coordVars>>

\* coords[1].set_ordinate(ordinate, new_value)
Call_set_ordinate(ordinate, new_value) ==
    /\ ~last.panicked
    /\ last' = Outcome([op |-> "set_ordinate", ordinate |-> ordinate,
                        new_value |-> new_value],
                       set_ordinate(coords[1], ordinate, new_value))
    /\ UNCHANGED <<seqs, simpleVars, coordVars>>

\* coords[1].is_valid()
Call_is_valid ==
    /\ ~last.panicked
    /\ last' = Outcome([op |-> "is_valid"], Ok(is_valid(coords[1])))
    /\ UNCHANGED <<seqs, simpleVars, coordVars>>

\* coords[1].equals_2d(&coords[2])
Call_equals_2d ==
    /\ ~last.panicked
    /\ last' = Outcome([op |-> "equals_2d"], Ok(equals_2d(coords[1], coords[2])))
    /\ UNCHANGED <<seqs, simpleVars, coordVars>>

\* coords[1].equals_3d(&coords[2])
Call_equals_3d ==
    /\ ~last.panicked
    /\ last' = Outcome([op |-> "equals_3d"], Ok(equals_3d(coords[1], coords[2])))
    /\ UNCHANGED <<seqs, simpleVars, coordVars>>

\* coords[1] == coords[2]
Call_eq ==
    /\ ~last.panicked
    /\ last' = Outcome([op |-> "eq"], Ok(eq(coords[1], coords[2])))
    /\ UNCHANGED <<seqs, simpleVars, coordVars>>

\* coords[1] != coords[2]
Call_ne ==
    /\ ~last.panicked
    /\ last' = Outcome([op |-> "ne"], Ok(ne(coords[1], coords[2])))
    /\ UNCHANGED <<seqs, simpleVars, coordVars>>

NextCoord ==
    \/ Call_z
    \/ \E ordinate \in 0..MaxOrdinate : Call_get_ordinate(ordinate)
    \/ \E ordinate \in 0..MaxOrdinate, new_value \in NewValues :
           Call_set_ordinate(ordinate, new_value)
    \/ Call_is_valid
    \/ Call_equals_2d
    \/ Call_equals_3d
    \/ Call_eq
    \/ Call_ne

SpecCoord == InitCoord /\ [][NextCoord]_vars

-----------------------------------------------------------------------------
(* Properties of Coordinate.                                               *)

\* the z a coordinate stands for: its own for ThreeDim, 0 for TwoDim
EffectiveZ(c) == IF c.dim = "TwoDim" THEN F(0) ELSE c.z

\* C12: get_ordinate(0) returns x, get_ordinate(1) returns y and
\* get_ordinate(2) returns the effective z, which is 0 for every TwoDim
\* coordinate, as is z(); any other index panics and returns no value.
C12_GetOrdinateMapsOrPanics ==
    /\ last.op = "get_ordinate" =>
          /\ last.ordinate = 0 => (~last.panicked /\ last.ret = coords[1].x)
          /\ last.ordinate = 1 => (~last.panicked /\ last.ret = coords[1].y)
          /\ last.ordinate = 2 => (~last.panicked /\ last.ret = EffectiveZ(coords[1]))
          /\ (last.ordinate = 2 /\ coords[1].dim = "TwoDim") => last.ret = F(0)
          /\ last.ordinate \notin {0, 1, 2} =>
                (last.panicked /\ "ret" \notin DOMAIN last)
    /\ (last.op = "z" /\ coords[1].dim = "TwoDim") => last.ret = F(0)

\* get_ordinate(2) answered 0 for a TwoDim coordinate with a NaN ordinate
C12_Witness ==
    /\ last.op = "get_ordinate"
    /\ last.ordinate = 2
    /\ coords[1].dim = "TwoDim"
    /\ coords[1].x.nan
    /\ ~last.panicked
    /\ last.ret = F(0)

\* the outcome of set_ordinate, for an index in {0, 1, 2}, taking "the
\* ordinate is" to mean that get_ordinate returns that very value
SetOrdinateRoundTrip ==
    (last.op = "set_ordinate" /\ last.ordinate \in {0, 1, 2}) =>
        /\ ~last.panicked
        /\ get_ordinate(last.ret, last.ordinate) = Ok(last.new_value)
        /\ \A k \in {0, 1, 2} \ {last.ordinate} :
              get_ordinate(last.ret, k) = get_ordinate(coords[1], k)

\* the same, with the ordinates compared by == of f64
SetOrdinateRoundTripByFloatEq ==
    (last.op = "set_ordinate" /\ last.ordinate \in {0, 1, 2}) =>
        /\ ~last.panicked
        /\ FEq(get_ordinate(last.ret, last.ordinate).ret, last.new_value)
        /\ \A k \in {0, 1, 2} \ {last.ordinate} :
              FEq(get_ordinate(last.ret, k).ret, get_ordinate(coords[1], k).ret)

\* setting index 2 on TwoDim promotes to ThreeDim, setting 0 or 1 keeps the
\* variant
SetOrdinateVariant ==
    (last.op = "set_ordinate" /\ last.ordinate \in {0, 1, 2}) =>
        last.ret.dim = IF last.ordinate = 2 THEN "ThreeDim" ELSE coords[1].dim

SetOrdinateOutOfRangePanics ==
    (last.op = "set_ordinate" /\ last.ordinate \notin {0, 1, 2}) =>
        (last.panicked /\ "ret" \notin DOMAIN last)

\* C13 as stated: for every coordinate c, index i in {0, 1, 2} and value v,
\* r = set_ordinate(i, v) has r.get_ordinate(i) == v and r.get_ordinate(k)
\* == c.get_ordinate(k) for every other k; index 2 promotes TwoDim to
\* ThreeDim and 0 or 1 keep the variant; any other index panics.
C13_SetOrdinateRoundTripByEq ==
    SetOrdinateRoundTripByFloatEq /\ SetOrdinateVariant /\ SetOrdinateOutOfRangePanics

\* C13, amended: as stated, with "r.get_ordinate(i) == v" and
\* "r.get_ordinate(k) == c.get_ordinate(k)" read as "is the same f64
\* value"; under == of f64 the equalities fail where the value is NaN.
C13_SetOrdinateRoundTrip ==
    SetOrdinateRoundTrip /\ SetOrdinateVariant /\ SetOrdinateOutOfRangePanics

\* set_ordinate(2, v) on a TwoDim coordinate gave a ThreeDim one holding v
C13_Witness ==
    /\ last.op = "set_ordinate"
    /\ last.ordinate = 2
    /\ coords[1].dim = "TwoDim"
    /\ ~last.panicked
    /\ last.ret = ThreeDim(coords[1].x, coords[1].y, last.new_value)
    /\ last.new_value = F(2)

\* == is equals_3d on x, y and the effective z; it implies equals_2d; != is
\* its negation
EqIsStructural ==
    /\ last.op = "eq" =>
          /\ last.ret <=> /\ FEq(coords[1].x, coords[2].x)
                          /\ FEq(coords[1].y, coords[2].y)
                          /\ FEq(EffectiveZ(coords[1]), EffectiveZ(coords[2]))
          /\ last.ret <=> equals_3d(coords[1], coords[2])
          /\ last.ret => equals_2d(coords[1], coords[2])
    /\ last.op = "ne" => (last.ret <=> ~eq(coords[1], coords[2]))

\* coords[1] is TwoDim{x, y} and coords[2] is ThreeDim{x, y, z: 0}
AreTwins ==
    /\ coords[1].dim = "TwoDim"
    /\ coords[2] = ThreeDim(coords[1].x, coords[1].y, F(0))

\* C14 as stated: == is exactly equals_3d on x, y and effective z,
\* independent of the variant; TwoDim{x, y} == ThreeDim{x, y, z: 0} for all
\* x, y; a == b implies equals_2d(a, b); a != b exactly when a == b is false.
C14_EqStructuralAllTwins ==
    /\ EqIsStructural
    /\ (last.op = "eq" /\ AreTwins) => last.ret = TRUE

\* C14, amended: as stated, with TwoDim{x, y} == ThreeDim{x, y, z: 0} for
\* all x, y that are not NaN.
C14_EqStructural ==
    /\ EqIsStructural
    /\ (last.op = "eq" /\ AreTwins /\ ~coords[1].x.nan /\ ~coords[1].y.nan) =>
          last.ret = TRUE

\* a TwoDim coordinate compared equal to its ThreeDim twin with z = 0
C14_Witness ==
    /\ last.op = "eq"
    /\ AreTwins
    /\ coords[1].x = F(1)
    /\ last.ret = TRUE

-----------------------------------------------------------------------------
(* The scan of is_simple as a whole (C15).                                 *)

\* the scan as C15 words it, from position k on: a marked violation gives
\* false; a coordinate equal to the first sets the flag when it is not yet
\* set; a coordinate already in seen marks a violation; any other is inserted
RECURSIVE ScanAsStated(_, _, _, _, _)
ScanAsStated(cs, k, seen, closedRingConsumed, violation) ==
    IF k > Len(cs) THEN ~violation
    ELSE IF violation THEN FALSE
    ELSE IF eq(cs[1], cs[k]) /\ ~closedRingConsumed
    THEN ScanAsStated(cs, k + 1, seen, TRUE, violation)
    ELSE IF \E e \in seen : eq(e, cs[k])
    THEN ScanAsStated(cs, k + 1, seen, closedRingConsumed, TRUE)
    ELSE ScanAsStated(cs, k + 1, seen \cup {cs[k]}, closedRingConsumed, violation)

\* the same scan, except that a coordinate that follows the return to the
\* start gives false as a marked violation does
RECURSIVE ScanAmended(_, _, _, _, _)
ScanAmended(cs, k, seen, closedRingConsumed, violation) ==
    IF k > Len(cs) THEN ~violation
    ELSE IF violation \/ closedRingConsumed THEN FALSE
    ELSE IF eq(cs[1], cs[k])
    THEN ScanAmended(cs, k + 1, seen, TRUE, violation)
    ELSE IF \E e \in seen : eq(e, cs[k])
    THEN ScanAmended(cs, k + 1, seen, closedRingConsumed, TRUE)
    ELSE ScanAmended(cs, k + 1, seen \cup {cs[k]}, closedRingConsumed, violation)

\* C15 as stated: for every LineString of length >= 1 the verdict of
\* is_simple equals the verdict of the scan of section 4.3 (violation marked
\* -> false; equal to first and flag unset -> set the flag; in seen -> mark a
\* violation; else insert; simple iff no violation was marked at the end).
C15_VerdictIsStatedScan ==
    LineStringReturned =>
        result = Some(ScanAsStated(geom.coordinates, 2, {}, FALSE, FALSE))

\* C15, amended: the verdict of is_simple equals the verdict of that scan
\* with its first rule widened: the result is false when a violation is
\* already marked or the flag is already set and another coordinate follows.
C15_VerdictIsScan ==
    LineStringReturned =>
        result = Some(ScanAmended(geom.coordinates, 2, {}, FALSE, FALSE))

\* a line that went back to its start and on to a new coordinate: no
\* violation is marked and the verdict is false
C15_Witness ==
    /\ LineStringReturned
    /\ Len(geom.coordinates) >= 3
    /\ state
    /\ ~initial_state
    /\ result = Some(FALSE)
    /\ ScanAsStated(geom.coordinates, 2, {}, FALSE, FALSE)

-----------------------------------------------------------------------------
(* is_simple_coordinates as a function of its argument, for the statements *)
(* that compare the verdicts of two lines (C16, C20).                      *)

\* the loop of is_simple_coordinates from the state it has after p
\* coordinates were taken from the iterator
RECURSIVE is_simple_coordinates_from(_, _, _, _, _)
is_simple_coordinates_from(coordinates, p, s, ist, st) ==
    IF p = Len(coordinates)
    THEN NoneArm(st)
    ELSE LET coordinate == coordinates[p + 1]
             ins == HashSetInsert(s, coordinate)
             arm == InitialArm(st, ist)
         IN  IF BreakEarly(st, ist)
             THEN FALSE
             ELSE IF eq(coordinates[1], coordinate)
             THEN is_simple_coordinates_from(coordinates, p + 1, s,
                                             arm.initial_state, arm.state)
             ELSE is_simple_coordinates_from(coordinates, p + 1, ins.set, ist,
                                             IF ~ins.inserted THEN FALSE ELSE st)

\* fn is_simple_coordinates(coordinates: &Vec<Coordinate>) -> bool, for a
\* vector of at least one coordinate
is_simple_coordinates(coordinates) ==
    is_simple_coordinates_from(coordinates, 1, {}, TRUE, TRUE)

\* the nonempty proper prefixes of cs
ProperPrefixes(cs) == { SubSeq(cs, 1, k) : k \in 1..(Len(cs) - 1) }

\* a marked violation is never unmarked
ViolationStays == ~state => ~state'

\* a returned scan that marked a violation returned false, and a line with
\* a prefix that is not simple is not simple
ViolationDecides ==
    LineStringReturned =>
        /\ ~state => result = Some(FALSE)
        /\ result = Some(is_simple_coordinates(geom.coordinates))
        /\ \A s \in ProperPrefixes(geom.coordinates) :
              ~is_simple_coordinates(s) => result = Some(FALSE)

\* C16: violation detection in is_simple is monotone: once state is set to
\* false it is never set back to true and the result is false whatever
\* coordinates follow; so if is_simple(LineString s) is false for a nonempty
\* s, is_simple(LineString s ++ t) is false for every t.
C16_ViolationMonotone == [](ViolationDecides) /\ [][ViolationStays]_vars

\* a violation was marked before the last coordinate: the line extends a
\* line that is not simple
C16_Witness ==
    /\ LineStringReturned
    /\ ~state
    /\ \E s \in ProperPrefixes(geom.coordinates) : ~is_simple_coordinates(s)
    /\ result = Some(FALSE)

-----------------------------------------------------------------------------
(* The set of the scan (C17).                                              *)

\* the scan of a LineString is under way or has returned
Scanning == geom.kind = "LineString" /\ pc \in {"loop", "returned"}

\* C17: at every step of the is_simple scan the set holds no coordinate
\* structurally equal to the first coordinate, it is empty before the second
\* coordinate is processed, and it holds only coordinates taken from
\* positions >= 1 that the scan has already processed.
C17_SetHoldsProcessedInterior ==
    Scanning =>
        /\ \A e \in set : ~eq(initial[1], e)
        /\ pos <= 1 => set = {}
        /\ set \subseteq { geom.coordinates[k] : k \in 2..pos }

\* a ring has been scanned: its interior is in the set, its closing
\* coordinate is not
C17_Witness ==
    /\ Scanning
    /\ pos >= 3
    /\ eq(initial[1], geom.coordinates[pos])
    /\ ~initial_state
    /\ set # {}

-----------------------------------------------------------------------------
(* Termination and cost of the scan (C18).  pos is the number of           *)
(* coordinates the iterator has yielded; the coordinate a step reads is    *)
(* the one at the new position.                                           *)

\* a LineString of at least one coordinate
NonEmptyLine == geom.kind = "LineString" /\ Len(geom.coordinates) >= 1

\* no more coordinates are read than the line has, and the scan starts after
\* the first coordinate
ReadsWithinLine ==
    Scanning =>
        /\ pos >= 1
        /\ pos <= Len(geom.coordinates)
        /\ initial = Some(geom.coordinates[1])

\* every pass of the loop reads the coordinate at the next position or
\* returns the verdict, and a returned call takes no further step
OnePassForward ==
    /\ pos' # pos => pos' = pos + 1
    /\ pc = "loop" => (pos' = pos + 1 \/ pc' = "returned")
    /\ pc = "returned" => UNCHANGED vars

\* the geometry is left as it was
InputUntouched == geom' = geom

\* C18: for every LineString of n >= 1 coordinates the is_simple scan
\* terminates with a verdict after at most n passes of its loop (each pass
\* takes one step of the iterator), reading coordinates strictly in
\* increasing position order, each at most once, and it leaves the
\* coordinate sequence unchanged.
C18_ScanTerminatesInOnePass ==
    /\ NonEmptyLine ~> (pc = "returned" /\ result # None)
    /\ [](ReadsWithinLine)
    /\ [][OnePassForward /\ InputUntouched]_vars

\* a scan read every coordinate of a line of at least three and returned
C18_Witness ==
    /\ LineStringReturned
    /\ Len(geom.coordinates) >= 3
    /\ pos = Len(geom.coordinates)
    /\ result = Some(TRUE)

-----------------------------------------------------------------------------
(* Early return of the scan (C19).                                         *)

\* the step returns the verdict of a LineString with coordinates unread
ReturnsEarly ==
    /\ geom.kind = "LineString"
    /\ pc = "loop"
    /\ pc' = "returned"
    /\ pos' < Len(geom.coordinates)

\* the returned scan left coordinates unread
ReturnedEarly == LineStringReturned /\ pos < Len(geom.coordinates)

\* C19 as stated: the is_simple scan returns before having read every
\* coordinate of the LineString only when a violation (a coordinate already
\* present in the set) was marked on a previous step; in every run where no
\* violation has been marked, all coordinates are read before the verdict is
\* returned.
C19_EarlyReturnOnlyOnViolation ==
    /\ [](ReturnedEarly => ~state)
    /\ [][ReturnsEarly => ~state]_vars

\* C19, amended: the scan returns before having read every coordinate only
\* when, on a previous step, a violation was marked or a coordinate equal to
\* the first was met; in every run where neither has happened, all
\* coordinates are read before the verdict is returned.
C19_EarlyReturnOnlyOnFlag ==
    /\ [](ReturnedEarly => (~state \/ ~initial_state))
    /\ [][ReturnsEarly => (~state \/ ~initial_state)]_vars

\* a scan that marked a violation returned with a coordinate unread
C19_Witness ==
    /\ ReturnedEarly
    /\ ~state
    /\ initial_state
    /\ result = Some(FALSE)

-----------------------------------------------------------------------------
(* Simplicity against the checks of CoordinateSequence (C20).  The         *)
(* sequence is CoordinateSequence::new over the coordinates of the line.   *)

\* C20: for every CoordinateSequence s of length >= 1 for which
\* is_simple(LineString over s's coordinates) is true, has_duplicates(s)
\* equals is_closed(s); a closed ring such as [A, B, A] has has_duplicates
\* true while is_simple is true; and every sequence with is_closed true has
\* has_duplicates true.
C20_SimpleDuplicatesIffClosed ==
    geom.kind = "LineString" =>
        /\ (pc = "returned" /\ result = Some(TRUE)) =>
              /\ has_duplicates(geom.coordinates) = is_closed(geom.coordinates)
              /\ is_simple_coordinates(geom.coordinates)
        /\ is_closed(geom.coordinates) => has_duplicates(geom.coordinates)

\* a ring with an interior was found simple, and it has duplicates
C20_Witness ==
    /\ LineStringReturned
    /\ Len(geom.coordinates) >= 3
    /\ result = Some(TRUE)
    /\ is_closed(geom.coordinates)
    /\ has_duplicates(geom.coordinates)

-----------------------------------------------------------------------------
(* The empty LineString (C21).                                             *)

\* a LineString with an empty coordinate list
EmptyLine == geom.kind = "LineString" /\ Len(geom.coordinates) = 0

\* no verdict exists for an empty line, and a verdict for a line means the
\* line has a first coordinate
NoVerdictForEmptyLine ==
    /\ EmptyLine => (result = None /\ pc \in {"call", "panicked"})
    /\ LineStringReturned => Len(geom.coordinates) >= 1
    /\ pc = "panicked" => EmptyLine

\* a panicked call takes no further step
PanicIsFinal == pc = "panicked" => UNCHANGED vars

\* C21: is_simple called on a Geometry::LineString with an empty coordinate
\* list does not return a verdict: it fails with a panic (the unwrap of the
\* missing first coordinate); a verdict is produced only for sequences of at
\* least 1 coordinate.
C21_EmptyLinePanics ==
    /\ EmptyLine ~> (pc = "panicked")
    /\ [](NoVerdictForEmptyLine)
    /\ [][PanicIsFinal]_vars

\* is_simple was called on an empty line and panicked
C21_Witness ==
    /\ EmptyLine
    /\ pc = "panicked"
    /\ result = None

-----------------------------------------------------------------------------
(* The other variants of Geometry (C22).                                   *)

OtherKinds ==
    {"LinearRing", "Polygon", "MultiPoint", "MultiLineString", "MultiPolygon",
     "GeometryCollection"}

\* C22: for every Geometry value that is neither Point nor LineString
\* (LinearRing, Polygon, MultiPoint, MultiLineString, MultiPolygon,
\* GeometryCollection) is_simple returns false regardless of its
\* coordinates, including a LinearRing whose coordinates would be judged
\* simple as a LineString.
C22_OtherVariantsNotSimple ==
    geom.kind \in OtherKinds =>
        /\ pc \in {"call", "returned"}
        /\ pc = "returned" => result = Some(FALSE)
        /\ pc = "call" => result = None

\* a LinearRing over a ring that is simple as a LineString was answered false
C22_Witness ==
    /\ geom.kind = "LinearRing"
    /\ pc = "returned"
    /\ result = Some(FALSE)
    /\ Len(geom.coordinates) >= 3
    /\ is_closed(geom.coordinates)
    /\ is_simple_coordinates(geom.coordinates)

=============================================================================
